---- MODULE Spec2Model ----
(***************************************************************************)
(* Model of the virtual file system shell of main.py: the Node tree built  *)
(* from the members of a tar archive, path resolution, and the command     *)
(* dispatcher with its ls, cd, mv, tree and exit handlers.                 *)
(*                                                                         *)
(* A Python str is a sequence of one-character strings, so that strip,     *)
(* rstrip, split, join and the f-strings are computed character by         *)
(* character.  Node objects live in a heap (a sequence of records); a      *)
(* reference to a Node is its index in the heap and None is 0.  A dict of  *)
(* children is a sequence of (key, node) items in insertion order.         *)
(***************************************************************************)
EXTENDS Integers, Sequences, FiniteSets, TLC

\* ------------------------------------------------------------------ bounds
\* Longest member list of the archive (tarfile.getmembers()).
MaxMembers == 2
\* Longest run of commands explored (_cmd_exec calls).
MaxCmds == 2
\* Longest segment sequence whose resolution is compared with the members.
MaxDepth == 3

\* ------------------------------------------------------------- str helpers
\* ord() of the characters that occur in node names and paths.
Ord(c) ==
    CASE c = "." -> 46
      [] c = "/" -> 47
      [] c = "a" -> 97
      [] c = "b" -> 98
      [] c = "x" -> 120
      [] OTHER -> 0

\* str.rstrip("/")
RECURSIVE rstrip(_)
rstrip(s) ==
    IF s # <<>> /\ s[Len(s)] = "/" THEN rstrip(SubSeq(s, 1, Len(s) - 1)) ELSE s

\* str.lstrip("/"), the left half of str.strip("/")
RECURSIVE lstrip(_)
lstrip(s) ==
    IF s # <<>> /\ s[1] = "/" THEN lstrip(Tail(s)) ELSE s

\* str.strip("/")
strip(s) == lstrip(rstrip(s))

\* str.split("/"): always at least one part, parts may be empty
RECURSIVE split(_)
split(s) ==
    IF \E i \in 1..Len(s) : s[i] = "/"
    THEN LET i == CHOOSE k \in 1..Len(s) :
                      s[k] = "/" /\ \A j \in 1..(k - 1) : s[j] # "/"
         IN <<SubSeq(s, 1, i - 1)>> \o split(SubSeq(s, i + 1, Len(s)))
    ELSE <<s>>

\* sep.join(parts)
RECURSIVE join(_, _)
join(sep, parts) ==
    IF parts = <<>> THEN <<>>
    ELSE IF Len(parts) = 1 THEN parts[1]
    ELSE parts[1] \o sep \o join(sep, Tail(parts))

\* parts[:-1]
AllButLast(parts) == SubSeq(parts, 1, Len(parts) - 1)

\* s < t for Python str (code point order, a proper prefix is smaller)
RECURSIVE StrLess(_, _)
StrLess(s, t) ==
    IF t = <<>> THEN FALSE
    ELSE IF s = <<>> THEN TRUE
    ELSE IF s[1] # t[1] THEN Ord(s[1]) < Ord(t[1])
    ELSE StrLess(Tail(s), Tail(t))

\* ------------------------------------------------------------------- Node
None == 0

\* Node.__init__
Node(name, is_dir) == [name |-> name, is_dir |-> is_dir, children |-> <<>>]

\* key in node.children
HasKey(children, key) == \E i \in 1..Len(children) : children[i].key = key

\* dict.__setitem__: a present key keeps its place and takes the new value,
\* an absent key is appended
DictSet(children, key, value) ==
    IF HasKey(children, key)
    THEN [i \in 1..Len(children) |->
             IF children[i].key = key THEN [key |-> key, node |-> value]
             ELSE children[i]]
    ELSE Append(children, [key |-> key, node |-> value])

\* dict.pop(key) on a present key: the item is removed
DictPop(children, key) ==
    LET keep == {i \in 1..Len(children) : children[i].key # key}
        RECURSIVE Sel(_)
        Sel(i) == IF i > Len(children) THEN <<>>
                  ELSE IF i \in keep THEN <<children[i]>> \o Sel(i + 1)
                  ELSE Sel(i + 1)
    IN Sel(1)

\* Node.add_child: self.children[child_node.name] = child_node
add_child(heap, self, child_node) ==
    [heap EXCEPT ![self].children =
        DictSet(heap[self].children, heap[child_node].name, child_node)]

\* Node.get_child: self.children.get(name)
get_child(heap, self, name) ==
    LET c == heap[self].children
    IN IF HasKey(c, name)
       THEN c[CHOOSE i \in 1..Len(c) : c[i].key = name].node
       ELSE None

\* Node.has_children
has_children(heap, self) == heap[self].children # <<>>

\* ------------------------------------------------------------- _build_tree
\* The root node is the first object of the heap.
root_node == 1

\* The inner loop without "if part not in current_node.children".
RECURSIVE build_parts_always_new(_, _, _, _, _)
build_parts_always_new(heap, current_node, parts, idx, isdir) ==
    IF idx > Len(parts) THEN heap
    ELSE LET part == parts[idx]
             is_dir == (idx # Len(parts)) \/ isdir
             h1 == add_child(Append(heap, Node(part, is_dir)),
                             current_node, Len(heap) + 1)
         IN build_parts_always_new(h1, get_child(h1, current_node, part),
                                   parts, idx + 1, isdir)

\* The inner loop of _build_tree for one member, from part idx on.
RECURSIVE build_parts(_, _, _, _, _)
build_parts(heap, current_node, parts, idx, isdir) ==
    IF idx > Len(parts) THEN heap
    ELSE LET part == parts[idx]
             is_dir == (idx # Len(parts)) \/ isdir
             h1 == IF ~HasKey(heap[current_node].children, part)
                   THEN add_child(Append(heap, Node(part, is_dir)),
                                  current_node, Len(heap) + 1)
                   ELSE heap
         IN build_parts(h1, get_child(h1, current_node, part), parts, idx + 1, isdir)

\* The body of the loop over the members: one member added to the tree.
build_member(heap, member) ==
    build_parts(heap, root_node, split(strip(member.name)), 1, member.isdir)

\* The loop over self.fs.getmembers(), from member k on.
RECURSIVE build_from(_, _, _)
build_from(heap, members, k) ==
    IF k > Len(members) THEN heap
    ELSE build_from(build_member(heap, members[k]), members, k + 1)

\* App._build_tree
build_tree(members) == build_from(<<Node(<<"/">>, TRUE)>>, members, 1)

\* ------------------------------------------------------ _find_node_by_path
RECURSIVE find_from(_, _, _, _)
find_from(heap, current_node, parts, k) ==
    IF k > Len(parts) THEN current_node
    ELSE IF parts[k] = <<>> THEN find_from(heap, current_node, parts, k + 1)
    ELSE LET next == get_child(heap, current_node, parts[k])
         IN IF next = None THEN None
            ELSE find_from(heap, next, parts, k + 1)

\* App._find_node_by_path
find_node_by_path(heap, parts) == find_from(heap, root_node, parts, 1)

\* ---------------------------------------------------------------- literals
\* The literal pieces of the handlers' f-strings, character by character.
S_usage ==
    <<"U","s","a","g","e",":"," ","m","v"," ","<","s","o","u","r","c","e",">",
      " ","<","d","e","s","t","i","n","a","t","i","o","n",">">>
S_not_found == <<" ","n","o","t"," ","f","o","u","n","d",".">>
S_destination == <<"D","e","s","t","i","n","a","t","i","o","n"," ">>
S_already_exists ==
    <<" ","a","l","r","e","a","d","y"," ","e","x","i","s","t","s",".">>
S_source_parent ==
    <<"S","o","u","r","c","e"," ","p","a","r","e","n","t"," ","n","o","t"," ",
      "f","o","u","n","d",":"," ">>
S_destination_parent ==
    <<"D","e","s","t","i","n","a","t","i","o","n"," ","p","a","r","e","n","t",
      " ","n","o","t"," ","f","o","u","n","d",":"," ">>
S_moved_to == <<" ","m","o","v","e","d"," ","t","o"," ">>
S_directory_not_found ==
    <<"D","i","r","e","c","t","o","r","y"," ","n","o","t"," ","f","o","u","n",
      "d">>
S_error == <<"E","r","r","o","r",":"," ">>
S_unknown_command ==
    <<"U","n","k","n","o","w","n"," ","c","o","m","m","a","n","d",":"," ">>

\* The command names of the dispatch table.
LS == <<"l","s">>
CD == <<"c","d">>
MV == <<"m","v">>
TREE == <<"t","r","e","e">>
EXIT == <<"e","x","i","t">>

\* ------------------------------------------------------------------ sorted
\* sorted(strs): insertion of x before the first element greater than x.
\* An insertion that keeps the order of arrival.
InsertStr_at_end(x, sorted) == Append(sorted, x)

RECURSIVE InsertStr(_, _)
InsertStr(x, sorted) ==
    IF sorted = <<>> THEN <<x>>
    ELSE IF StrLess(x, sorted[1]) THEN <<x>> \o sorted
    ELSE <<sorted[1]>> \o InsertStr(x, Tail(sorted))

RECURSIVE SortStrs(_, _)
SortStrs(strs, acc) ==
    IF strs = <<>> THEN acc
    ELSE SortStrs(Tail(strs), InsertStr(strs[1], acc))

\* The sort key of _dfs_tree without "not n.is_dir".
TreeKeyLess_name_only(heap, a, b) == StrLess(heap[a].name, heap[b].name)

\* (not a.is_dir, a.name) < (not b.is_dir, b.name), the sort key of _dfs_tree
TreeKeyLess(heap, a, b) ==
    IF heap[a].is_dir # heap[b].is_dir THEN heap[a].is_dir
    ELSE StrLess(heap[a].name, heap[b].name)

RECURSIVE InsertNode(_, _, _)
InsertNode(heap, x, sorted) ==
    IF sorted = <<>> THEN <<x>>
    ELSE IF TreeKeyLess(heap, x, sorted[1]) THEN <<x>> \o sorted
    ELSE <<sorted[1]>> \o InsertNode(heap, x, Tail(sorted))

RECURSIVE SortNodes(_, _, _)
SortNodes(heap, nodes, acc) ==
    IF nodes = <<>> THEN acc
    ELSE SortNodes(heap, Tail(nodes), InsertNode(heap, nodes[1], acc))

\* node.children.keys() and node.children.values(), in insertion order
Keys(heap, node) ==
    [i \in 1..Len(heap[node].children) |-> heap[node].children[i].key]
Values(heap, node) ==
    [i \in 1..Len(heap[node].children) |-> heap[node].children[i].node]

\* sorted(node.children.values(), key=lambda n: (not n.is_dir, n.name))
sorted_children(heap, node) == SortNodes(heap, Values(heap, node), <<>>)

\* --------------------------------------------------------------- _dfs_tree
\* App._dfs_tree; the loop over sorted_children is dfs_children.
RECURSIVE dfs_tree(_, _, _)
RECURSIVE dfs_children(_, _, _, _)
dfs_children(heap, sorted, prefix, idx) ==
    IF idx > Len(sorted) THEN <<>>
    ELSE LET child_prefix ==
                 prefix \o (IF idx < Len(sorted) THEN <<"|", " ", " ">>
                            ELSE <<" ", " ", " ">>)
         IN dfs_tree(heap, sorted[idx], child_prefix)
              \o dfs_children(heap, sorted, prefix, idx + 1)

dfs_tree(heap, node, prefix) ==
    (prefix \o heap[node].name
        \o (IF heap[node].is_dir THEN <<"/", "\n">> ELSE <<"\n">>))
      \o dfs_children(heap, sorted_children(heap, node), prefix, 1)

\* ---------------------------------------------------------------- handlers
\* What a handler leaves behind: the heap, cur_dir, the returned str, and
\* whether it raised (res is then str(e)) or ended the process.
Outcome(heap, cur, res) ==
    [heap |-> heap, cur_dir |-> cur, res |-> res, raised |-> FALSE, exited |-> FALSE]
Raised(heap, cur, msg) ==
    [heap |-> heap, cur_dir |-> cur, res |-> msg, raised |-> TRUE, exited |-> FALSE]

\* An ls that sorts the dict of the listed node in place.
ls_cmd_sorts_in_place(heap, cur, arg) ==
    LET path == IF arg = <<>> THEN cur ELSE arg[1]
        node == find_node_by_path(heap, split(strip(path)))
        ks == SortStrs(Keys(heap, node), <<>>)
    IN IF node # None /\ has_children(heap, node)
       THEN Outcome([heap EXCEPT ![node].children =
                        [i \in 1..Len(ks) |->
                            [key |-> ks[i], node |-> get_child(heap, node, ks[i])]]],
                    cur, join(<<"\n">>, ks))
       ELSE Outcome(heap, cur, <<>>)

\* App._ls_cmd
ls_cmd(heap, cur, arg) ==
    LET path == IF arg = <<>> THEN cur ELSE arg[1]
        node == find_node_by_path(heap, split(strip(path)))
    IN IF node # None /\ has_children(heap, node)
       THEN Outcome(heap, cur, join(<<"\n">>, SortStrs(Keys(heap, node), <<>>)))
       ELSE Outcome(heap, cur, <<>>)

\* App._tree_cmd
tree_cmd(heap, cur, arg) ==
    LET path == IF arg = <<>> THEN cur ELSE arg[1]
        node == find_node_by_path(heap, split(strip(path)))
    IN IF node # None
       THEN Outcome(heap, cur, dfs_tree(heap, node, <<>>))
       ELSE Outcome(heap, cur, S_directory_not_found \o <<".">>)

\* The ".." branch without its 'or "/"'.
cd_parent_no_root(cur) == join(<<"/">>, AllButLast(split(rstrip(cur))))

\* The ".." branch of _cd_cmd:
\* "/".join(cur_dir.rstrip("/").split("/")[:-1]) or "/"
cd_parent(cur) ==
    LET up == join(<<"/">>, AllButLast(split(rstrip(cur))))
    IN IF up = <<>> THEN <<"/">> ELSE up

\* The candidate of _cd_cmd: f"{cur_dir.rstrip('/')}/{target_dir}".strip("/")
cd_new_dir(cur, target_dir) == strip(rstrip(cur) \o <<"/">> \o target_dir)

\* The test of cd without ".is_dir".
cd_is_node(heap, target_node) == target_node # None

\* target_node and target_node.is_dir
cd_is_directory(heap, target_node) ==
    target_node # None /\ heap[target_node].is_dir

\* App._cd_cmd
cd_cmd(heap, cur, arg) ==
    IF arg = <<>> THEN Outcome(heap, cur, <<>>)
    ELSE LET target_dir == strip(arg[1])
         IN IF target_dir = <<".", ".">>
            THEN Outcome(heap, IF cur # <<"/">> THEN cd_parent(cur) ELSE cur, <<>>)
            ELSE IF target_dir = <<"/">>
            THEN Outcome(heap, <<"/">>, <<>>)
            ELSE LET new_dir == cd_new_dir(cur, target_dir)
                     target_node == find_node_by_path(heap, split(new_dir))
                 IN IF cd_is_directory(heap, target_node)
                    THEN Outcome(heap, <<"/">> \o new_dir, <<>>)
                    ELSE Outcome(heap, cur,
                                 S_directory_not_found \o <<":", " ">> \o target_dir)

\* str(KeyError(key)): the repr of the key
KeyErrorStr(key) == <<"'">> \o key \o <<"'">>

\* A move that leaves the node in its old parent's dict.
pop_child_skip(heap, parent, key) == heap

\* src_parent.children.pop(src_parts[-1])
pop_child(heap, parent, key) ==
    [heap EXCEPT ![parent].children = DictPop(heap[parent].children, key)]

\* A move that keeps the node's old name.
set_name_skip(heap, node, name) == heap

\* src_node.name = dest_parts[-1]
set_name(heap, node, name) == [heap EXCEPT ![node].name = name]

\* len(arg) < 2, the usage test of _mv_cmd
mv_bad_usage(arg) == Len(arg) < 2

\* The move with the destination's parent resolved before the source leaves
\* its parent.
mv_move_parent_first(heap, cur, arg, src, dest, src_node) ==
    LET src_parts == split(src)
        src_parent == find_node_by_path(heap, AllButLast(src_parts))
        dest_parts == split(dest)
        dest_parent == find_node_by_path(heap, AllButLast(dest_parts))
    IN IF src_parent = None
       THEN Outcome(heap, cur, S_source_parent \o join(<<"/">>, AllButLast(src_parts)))
       ELSE IF ~HasKey(heap[src_parent].children, src_parts[Len(src_parts)])
       THEN Raised(heap, cur, KeyErrorStr(src_parts[Len(src_parts)]))
       ELSE LET h1 == pop_child(heap, src_parent, src_parts[Len(src_parts)])
            IN IF dest_parent = None
               THEN Outcome(h1, cur,
                            S_destination_parent \o join(<<"/">>, AllButLast(dest_parts)))
               ELSE Outcome(add_child(set_name(h1, src_node, dest_parts[Len(dest_parts)]),
                                      dest_parent, src_node),
                            cur, arg[1] \o S_moved_to \o arg[2] \o <<".">>)

\* _mv_cmd from "src_parts = src.split('/')" on: source found, destination free
mv_move(heap, cur, arg, src, dest, src_node) ==
    LET src_parts == split(src)
        src_parent == find_node_by_path(heap, AllButLast(src_parts))
    IN IF src_parent = None
       THEN Outcome(heap, cur, S_source_parent \o join(<<"/">>, AllButLast(src_parts)))
       ELSE IF ~HasKey(heap[src_parent].children, src_parts[Len(src_parts)])
       THEN Raised(heap, cur, KeyErrorStr(src_parts[Len(src_parts)]))
       ELSE LET h1 == pop_child(heap, src_parent, src_parts[Len(src_parts)])
                dest_parts == split(dest)
                dest_parent == find_node_by_path(h1, AllButLast(dest_parts))
            IN IF dest_parent = None
               THEN Outcome(h1, cur,
                            S_destination_parent \o join(<<"/">>, AllButLast(dest_parts)))
               ELSE Outcome(add_child(set_name(h1, src_node, dest_parts[Len(dest_parts)]),
                                      dest_parent, src_node),
                            cur, arg[1] \o S_moved_to \o arg[2] \o <<".">>)

\* The checks of _mv_cmd with the destination tested before the source.
mv_checks_dest_first(heap, cur, arg, src, dest) ==
    LET src_node == find_node_by_path(heap, split(src))
        dest_node == find_node_by_path(heap, split(dest))
    IN IF dest_node # None
       THEN Outcome(heap, cur, S_destination \o arg[2] \o S_already_exists)
       ELSE IF src_node = None THEN Outcome(heap, cur, arg[1] \o S_not_found)
       ELSE mv_move(heap, cur, arg, src, dest, src_node)

\* The checks of _mv_cmd without the test of the destination.
mv_checks_no_dest(heap, cur, arg, src, dest) ==
    LET src_node == find_node_by_path(heap, split(src))
    IN IF src_node = None THEN Outcome(heap, cur, arg[1] \o S_not_found)
       ELSE mv_move(heap, cur, arg, src, dest, src_node)

\* _mv_cmd from the two resolutions to "if dest_node: return ..."
mv_checks(heap, cur, arg, src, dest) ==
    LET src_node == find_node_by_path(heap, split(src))
        dest_node == find_node_by_path(heap, split(dest))
    IN IF src_node = None THEN Outcome(heap, cur, arg[1] \o S_not_found)
       ELSE IF dest_node # None
       THEN Outcome(heap, cur, S_destination \o arg[2] \o S_already_exists)
       ELSE mv_move(heap, cur, arg, src, dest, src_node)

\* An mv that takes cur_dir along when it moves the current directory.
mv_cmd_takes_cur_dir(heap, cur, arg) ==
    IF mv_bad_usage(arg) THEN Outcome(heap, cur, S_usage)
    ELSE LET r == mv_checks(heap, cur, arg, strip(arg[1]), strip(arg[2]))
         IN IF r.heap # heap /\ cur = <<"/">> \o strip(arg[1])
            THEN [r EXCEPT !.cur_dir = <<"/">> \o strip(arg[2])]
            ELSE r

\* App._mv_cmd
mv_cmd(heap, cur, arg) ==
    IF mv_bad_usage(arg) THEN Outcome(heap, cur, S_usage)
    ELSE mv_checks(heap, cur, arg, strip(arg[1]), strip(arg[2]))

\* App._exit_cmd: exit(0) raises SystemExit, which is no Exception
exit_cmd(heap, cur, arg) ==
    [heap |-> heap, cur_dir |-> cur, res |-> <<>>, raised |-> FALSE, exited |-> TRUE]

\* --------------------------------------------------------------- _cmd_exec
\* commands[cmd](lines[1:])
handler(heap, cur, cmd, arg) ==
    CASE cmd = LS -> ls_cmd(heap, cur, arg)
      [] cmd = CD -> cd_cmd(heap, cur, arg)
      [] cmd = MV -> mv_cmd(heap, cur, arg)
      [] cmd = TREE -> tree_cmd(heap, cur, arg)
      [] cmd = EXIT -> exit_cmd(heap, cur, arg)

\* _cmd_exec without its "except Exception": what the handler raises leaves
\* the dispatcher and ends the run.
cmd_exec_no_catch(heap, cur, lines) ==
    IF lines = <<>> \/ lines[1] = <<>> THEN Outcome(heap, cur, <<>>)
    ELSE IF lines[1] \in {LS, CD, MV, TREE, EXIT}
    THEN LET r == handler(heap, cur, lines[1], Tail(lines))
         IN IF r.raised THEN [r EXCEPT !.exited = TRUE] ELSE r
    ELSE Outcome(heap, cur, S_unknown_command \o lines[1])

\* App._cmd_exec.  The words of a line come from str.split(), so lines[0]
\* has no white space and lines[0].strip() is lines[0].
cmd_exec(heap, cur, lines) ==
    IF lines = <<>> \/ lines[1] = <<>> THEN Outcome(heap, cur, <<>>)
    ELSE IF lines[1] \in {LS, CD, MV, TREE, EXIT}
    THEN LET r == handler(heap, cur, lines[1], Tail(lines))
         IN IF r.raised THEN Outcome(r.heap, r.cur_dir, S_error \o r.res)
            ELSE r
    ELSE Outcome(heap, cur, S_unknown_command \o lines[1])

\* ------------------------------------------------------------------ inputs
\* Member names of the archives explored.
MemberNames == { <<"a","/">>, <<"a","/","a">>, <<"b">> }

\* A member: its name and TarInfo.isdir().  tarfile strips the trailing
\* slashes of a directory member's name.
Members ==
    { m \in [name : MemberNames, isdir : BOOLEAN] : m.isdir => rstrip(m.name) = m.name }

\* The member lists of at most MaxMembers members.
Archives == UNION { [1..n -> Members] : n \in 0..MaxMembers }

\* The path arguments typed at the prompt.
PathArgs ==
    { <<"a">>, <<"b">>, <<"/">>, <<".",".">>, <<"a","/","b">>, <<"/","a","/">> }

\* A word that is no command name.
PWD == <<"p","w","d">>

\* ------------------------------------------------------------------- state
VARIABLES
    members,      \* self.fs.getmembers()
    heap,         \* the Node objects; heap[root_node] is self.root_node
    cur_dir,      \* self.cur_dir
    running,      \* the process has not exited
    ncmds,        \* number of _cmd_exec calls so far
    lines,        \* the argument of the last _cmd_exec call
    result,       \* what that call returned
    old_heap,     \* heap before that call
    old_cur_dir   \* cur_dir before that call

vars ==
    <<members, heap, cur_dir, running, ncmds, lines, result, old_heap, old_cur_dir>>

\* App.__init__: the tree is built, cur_dir is the class attribute "/".
Init ==
    /\ members \in Archives
    /\ heap = build_tree(members)
    /\ cur_dir = <<"/">>
    /\ running = TRUE
    /\ ncmds = 0
    /\ lines = <<>>
    /\ result = <<>>
    /\ old_heap = heap
    /\ old_cur_dir = cur_dir

\* One call of _cmd_exec(ws) from _enter_handler or the startup script.
Exec(ws) ==
    LET r == cmd_exec(heap, cur_dir, ws)
    IN /\ running
       /\ ncmds < MaxCmds
       /\ heap' = r.heap
       /\ cur_dir' = r.cur_dir
       /\ running' = ~r.exited
       /\ ncmds' = ncmds + 1
       /\ lines' = ws
       /\ result' = r.res
       /\ old_heap' = heap
       /\ old_cur_dir' = cur_dir
       /\ UNCHANGED members

EmptyLine == Exec(<<>>)

UnknownCmd == Exec(<<PWD>>)

LsCmd == \E arg \in {<<>>} \cup {<<p>> : p \in PathArgs} : Exec(<<LS>> \o arg)

TreeCmd == \E arg \in {<<>>} \cup {<<p>> : p \in PathArgs} : Exec(<<TREE>> \o arg)

\* cd also with a target that holds an empty segment
CdArgs == {<<>>} \cup {<<p>> : p \in PathArgs \cup {<<"a","/","/","a">>}}

CdCmd == \E arg \in CdArgs : Exec(<<CD>> \o arg)

\* The paths given to mv.
MvPaths == (PathArgs \ {<<".",".">>}) \cup {<<"b","/","a">>}

\* mv with no, one, two and three arguments
MvArgs ==
    {<<>>} \cup {<<p>> : p \in {<<"a">>, <<"/">>}}
           \cup {<<p, q>> : p \in MvPaths, q \in MvPaths}
           \cup {<<p, q, <<"b">> >> : p \in {<<"a">>}, q \in {<<"b">>, <<"a","/","b">>}}

MvCmd == \E arg \in MvArgs : Exec(<<MV>> \o arg)

ExitCmd == Exec(<<EXIT>>)

Next ==
    \/ EmptyLine
    \/ UnknownCmd
    \/ LsCmd
    \/ TreeCmd
    \/ CdCmd
    \/ MvCmd
    \/ ExitCmd

Spec == Init /\ [][Next]_vars

\* ============================================================ properties
\* The non-empty parts of a path, in order.
Segs(path) == SelectSeq(split(path), LAMBDA part : part # <<>>)

\* Resolution of a path argument, as every handler calls it.
Resolve(h, path) == find_node_by_path(h, split(strip(path)))

\* The path of all segments of path but the last.
ParentSegs(path) == AllButLast(Segs(path))

\* The nodes of the subtree of n, n included.
RECURSIVE Subtree(_, _)
Subtree(h, n) ==
    {n} \cup UNION { Subtree(h, h[n].children[i].node) : i \in 1..Len(h[n].children) }

\* The nodes that list n among their children.
Parents(h, n) ==
    { q \in 1..Len(h) : \E i \in 1..Len(h[q].children) : h[q].children[i].node = n }

\* sub occurs in s
Contains(s, sub) ==
    \E i \in 1..(Len(s) - Len(sub) + 1) : SubSeq(s, i, i + Len(sub) - 1) = sub

\* The last call was mv with exactly a source and a destination.
IsMv2 == Len(lines) = 3 /\ lines[1] = MV

\* That mv reported success.
MvMoved == IsMv2 /\ result = lines[2] \o S_moved_to \o lines[3] \o <<".">>

\* Before the last call: the source resolved, the destination did not, and
\* the destination's parent resolved.
MvPre ==
    /\ IsMv2
    /\ Resolve(old_heap, lines[2]) # None
    /\ Resolve(old_heap, lines[3]) = None
    /\ find_node_by_path(old_heap, ParentSegs(lines[3])) # None

\* The effect C1 describes, s being the node the source resolved to and dp
\* the node the destination's parent resolved to.
MvEffect ==
    LET s == Resolve(old_heap, lines[2])
        sp == find_node_by_path(old_heap, ParentSegs(lines[2]))
        dp == find_node_by_path(old_heap, ParentSegs(lines[3]))
        newname == Segs(lines[3])[Len(Segs(lines[3]))]
    IN /\ MvMoved
       /\ Resolve(heap, lines[3]) = s
       /\ Resolve(heap, lines[2]) = None
       /\ heap[s] = [old_heap[s] EXCEPT !.name = newname]
       /\ \A n \in Subtree(old_heap, s) \ {s} : heap[n] = old_heap[n]
       /\ Parents(heap, s) = {dp}
       /\ HasKey(heap[dp].children, newname)
       /\ sp # dp => /\ Len(heap[sp].children) = Len(old_heap[sp].children) - 1
                     /\ Len(heap[dp].children) = Len(old_heap[dp].children) + 1
       /\ sp = dp => Len(heap[sp].children) = Len(old_heap[sp].children)
       /\ \A q \in {sp, dp} :
             /\ heap[q].name = old_heap[q].name
             /\ heap[q].is_dir = old_heap[q].is_dir
             /\ \A i \in 1..Len(old_heap[q].children) :
                   old_heap[q].children[i].node # s =>
                       \E j \in 1..Len(heap[q].children) :
                           heap[q].children[j] = old_heap[q].children[i]
       /\ Len(heap) = Len(old_heap)
       /\ \A n \in 1..Len(heap) : n \notin {s, sp, dp} => heap[n] = old_heap[n]
       /\ cur_dir = old_cur_dir

\* C1 as stated: every mv whose source resolves, whose destination does not
\* and whose destination's parent resolves reports "<source> moved to
\* <destination>." and has moved the node.
C1_MvMovesAsStated == MvPre => MvEffect

\* C1, amended: a mv whose source resolves, whose destination does not
\* resolve and whose destination's parent resolves to a node outside the
\* source's subtree (so the source is not the root) returns "<source> moved
\* to <destination>."; afterwards the destination resolves to the node the
\* source resolved to, renamed to the destination's last segment with its
\* subtree intact, the source no longer resolves, the old parent has one
\* child fewer and the new parent one more (the same number when they are
\* one node), and every other node is unchanged.
C1_MvMoves ==
    (MvPre /\ find_node_by_path(old_heap, ParentSegs(lines[3]))
                 \notin Subtree(old_heap, Resolve(old_heap, lines[2])))
        => MvEffect

\* A node with a child was moved under another parent.
C1_Witness ==
    /\ MvPre
    /\ MvMoved
    /\ old_heap[Resolve(old_heap, lines[2])].children # <<>>
    /\ find_node_by_path(old_heap, ParentSegs(lines[2]))
          # find_node_by_path(old_heap, ParentSegs(lines[3]))
    /\ Resolve(heap, lines[3]) = Resolve(old_heap, lines[2])

\* C2: a mv (source, destination) whose source does not resolve returns a
\* message containing "not found", "<source> not found.", whatever the
\* destination, and leaves every node and cur_dir as they were.
C2_MvSourceNotFound ==
    (IsMv2 /\ Resolve(old_heap, lines[2]) = None)
        => /\ Contains(result, <<"n","o","t"," ","f","o","u","n","d">>)
           /\ result = lines[2] \o S_not_found
           /\ heap = old_heap
           /\ cur_dir = old_cur_dir

\* The source did not resolve while the destination did, on a tree with nodes.
C2_Witness ==
    /\ IsMv2
    /\ Resolve(old_heap, lines[2]) = None
    /\ Resolve(old_heap, lines[3]) \notin {None, root_node}
    /\ result = lines[2] \o S_not_found

\* C3: mv never overwrites.  When source and destination both resolve (also
\* to one node) it returns "Destination <destination> already exists." and
\* changes nothing; and a mv that reports success has taken no node but the
\* moved one out of any children dict.
C3_MvNeverOverwrites ==
    /\ (IsMv2 /\ Resolve(old_heap, lines[2]) # None /\ Resolve(old_heap, lines[3]) # None)
          => /\ result = S_destination \o lines[3] \o S_already_exists
             /\ heap = old_heap
             /\ cur_dir = old_cur_dir
    /\ MvMoved
          => LET s == Resolve(old_heap, lines[2])
             IN \A q \in 1..Len(old_heap) :
                   \A i \in 1..Len(old_heap[q].children) :
                       old_heap[q].children[i].node # s =>
                           \E j \in 1..Len(heap[q].children) :
                               heap[q].children[j] = old_heap[q].children[i]

\* Source and destination were two spellings of one node, not the root.
C3_Witness ==
    /\ IsMv2
    /\ lines[2] # lines[3]
    /\ Resolve(old_heap, lines[2]) # None
    /\ Resolve(old_heap, lines[2]) # root_node
    /\ Resolve(old_heap, lines[2]) = Resolve(old_heap, lines[3])
    /\ result = S_destination \o lines[3] \o S_already_exists

\* C4: in every children dict the keys, the nodes and the nodes' names are
\* pairwise distinct, each key is its node's name, and no node is listed by
\* two parents.
C4_SiblingsUniqueOneParent ==
    /\ \A q \in 1..Len(heap) :
          \A i, j \in 1..Len(heap[q].children) :
              LET ci == heap[q].children[i]
                  cj == heap[q].children[j]
              IN /\ ci.key = heap[ci.node].name
                 /\ i # j => /\ ci.node # cj.node
                             /\ heap[ci.node].name # heap[cj.node].name
    /\ \A n \in 1..Len(heap) : Cardinality(Parents(heap, n)) <= 1

\* Two mv commands in a row have each moved a node.
C4_Witness ==
    /\ ncmds = 2
    /\ MvMoved
    /\ heap # old_heap
    /\ old_heap # build_tree(members)

\* ------------------------------------------------------------ C5 .. C10
\* The last call had one argument and the command name c.
IsCmd1(c) == Len(lines) = 2 /\ lines[1] = c

\* A path argument that does not start at the root.
IsRelative(arg) == arg # <<>> /\ arg[1] # "/"

\* cur_dir prefixed to a path argument.
Prefixed(cur, arg) == rstrip(cur) \o <<"/">> \o arg

\* C5: ls, tree and mv take a relative path argument from cur_dir: ls x
\* lists, and tree x renders, the node of cur_dir/x, and mv a b moves
\* cur_dir/a to cur_dir/b.
C5_PathsRelativeToCurDir ==
    /\ (IsCmd1(LS) /\ IsRelative(lines[2]))
          => result = ls_cmd(old_heap, old_cur_dir,
                             <<Prefixed(old_cur_dir, lines[2])>>).res
    /\ (IsCmd1(TREE) /\ IsRelative(lines[2]))
          => result = tree_cmd(old_heap, old_cur_dir,
                               <<Prefixed(old_cur_dir, lines[2])>>).res
    /\ (IsMv2 /\ IsRelative(lines[2]) /\ IsRelative(lines[3]))
          => heap = mv_cmd(old_heap, old_cur_dir,
                           <<Prefixed(old_cur_dir, lines[2]),
                             Prefixed(old_cur_dir, lines[3])>>).heap

\* C6: after "cd /" cur_dir is "/", whatever it was.
C6_CdSlashResets == IsCmd1(CD) /\ lines[2] = <<"/">> => cur_dir = <<"/">>

\* The candidate path of cd: cur_dir joined with the target.
Candidate == rstrip(old_cur_dir) \o <<"/">> \o strip(lines[2])

\* C7: cd with a target other than ".." whose candidate path does not
\* resolve, or resolves to a node that is no directory, returns "Directory
\* not found: <target>" (the target without its outer slashes) and keeps
\* cur_dir; cur_dir becomes the candidate path, as "/" and its segments,
\* exactly when that path resolves to a directory node.  The tree is
\* unchanged.
C7_CdOnlyIntoDirectories ==
    (IsCmd1(CD) /\ strip(lines[2]) # <<".", ".">>)
        => LET n == Resolve(old_heap, Candidate)
           IN /\ heap = old_heap
              /\ IF n # None /\ old_heap[n].is_dir
                 THEN /\ cur_dir = <<"/">> \o strip(Candidate)
                      /\ result = <<>>
                 ELSE /\ cur_dir = old_cur_dir
                      /\ result = S_directory_not_found \o <<":", " ">>
                                     \o strip(lines[2])

\* cd was refused on a node that exists and is no directory.
C7_Witness ==
    /\ IsCmd1(CD)
    /\ strip(lines[2]) # <<".", ".">>
    /\ Resolve(old_heap, Candidate) # None
    /\ ~old_heap[Resolve(old_heap, Candidate)].is_dir
    /\ Contains(result, S_directory_not_found)
    /\ cur_dir = old_cur_dir

\* "/" followed by non-empty segments joined with "/", or "/" alone: the
\* values cur_dir takes when every cd target so far had one segment.
Normalized(c) ==
    \/ c = <<"/">>
    \/ Segs(c) # <<>> /\ c = <<"/">> \o join(<<"/">>, Segs(c))

\* The single-segment names tried after the current state.
SingleSegs == { <<"a">>, <<"b">> }

\* C8: "cd .." at "/" changes nothing and elsewhere removes exactly the last
\* segment of cur_dir, giving "/" when none is left; a single-segment target
\* or ".." takes a normalized cur_dir to a normalized one; and from a
\* normalized cur_dir c, a successful "cd d" with one segment d followed by
\* "cd .." gives exactly c again.
C8_CdDotDot ==
    /\ (IsCmd1(CD) /\ strip(lines[2]) = <<".", ".">>)
          => /\ result = <<>>
             /\ heap = old_heap
             /\ old_cur_dir = <<"/">> => cur_dir = <<"/">>
             /\ old_cur_dir # <<"/">>
                   => /\ Segs(cur_dir) = AllButLast(Segs(old_cur_dir))
                      /\ Segs(cur_dir) = <<>> => cur_dir = <<"/">>
    /\ (IsCmd1(CD) /\ Len(Segs(lines[2])) = 1 /\ Normalized(old_cur_dir))
          => Normalized(cur_dir)
    /\ Normalized(cur_dir)
          => \A d \in SingleSegs :
                LET r1 == cmd_exec(heap, cur_dir, <<CD, d>>)
                    r2 == cmd_exec(r1.heap, r1.cur_dir, <<CD, <<".", ".">> >>)
                IN r1.res = <<>> => (r1.cur_dir # cur_dir /\ r2.cur_dir = cur_dir)

\* "cd d" from "/" and then "cd .." are the two calls made; cur_dir is "/".
C8_Witness ==
    /\ ncmds = 2
    /\ IsCmd1(CD)
    /\ strip(lines[2]) = <<".", ".">>
    /\ old_cur_dir # <<"/">>
    /\ Len(Segs(old_cur_dir)) = 1
    /\ cur_dir = <<"/">>

\* C9: mv with a number of arguments other than two returns the usage
\* message and leaves the tree unchanged.
C9_MvUsage ==
    (lines # <<>> /\ lines[1] = MV /\ Len(lines) # 3)
        => (result = S_usage /\ heap = old_heap)

\* The segment sequences whose resolution C10 compares with the members.
SegSeqs == UNION { [1..n -> SingleSegs] : n \in 0..MaxDepth }

\* The non-empty prefixes of the members' paths.
MemberPrefixes(ms) ==
    UNION { { SubSeq(Segs(ms[k].name), 1, n) : n \in 1..Len(Segs(ms[k].name)) } :
              k \in 1..Len(ms) }

\* The lines of a text: its pieces between "\n".
RECURSIVE TextLines(_)
TextLines(s) ==
    IF \E i \in 1..Len(s) : s[i] = "\n"
    THEN LET i == CHOOSE k \in 1..Len(s) :
                      s[k] = "\n" /\ \A j \in 1..(k - 1) : s[j] # "\n"
         IN <<SubSeq(s, 1, i - 1)>> \o TextLines(SubSeq(s, i + 1, Len(s)))
    ELSE <<s>>

\* C10: in the tree as built from the members, a segment sequence resolves
\* exactly when it is empty or a non-empty prefix of a member's path; the
\* heap holds the root and one node for each such prefix; and ls at the
\* root lists exactly the distinct first segments, each once.
C10_TreeIsPrefixesOfMembers ==
    ncmds = 0
        => LET prefixes == MemberPrefixes(members)
               firsts == { q[1] : q \in prefixes }
               out == ls_cmd(heap, cur_dir, <<>>).res
           IN /\ \A q \in SegSeqs :
                     (find_node_by_path(heap, q) # None)
                         <=> (q = <<>> \/ q \in prefixes)
              /\ find_node_by_path(heap, <<>>) = root_node
              /\ Len(heap) = 1 + Cardinality(prefixes)
              /\ \A n \in 2..Len(heap) :
                     \E q \in prefixes : find_node_by_path(heap, q) = n
              /\ IF firsts = {} THEN out = <<>>
                 ELSE /\ { TextLines(out)[i] : i \in 1..Len(TextLines(out)) } = firsts
                      /\ Len(TextLines(out)) = Cardinality(firsts)

\* The tree was built from a member listed before its parent directory.
C10_Witness ==
    /\ ncmds = 0
    /\ Len(members) = 2
    /\ members[1].name = <<"a", "/", "a">>
    /\ members[2].name = <<"a", "/">>
    /\ Len(heap) = 3
    /\ find_node_by_path(heap, <<<<"a">>, <<"a">>>>) = 3

\* ----------------------------------------------------------- C11 .. C20
\* The last call was the command c with at most one argument.
IsCmd01(c) == Len(lines) \in {1, 2} /\ lines[1] = c

\* The path ls and tree resolve: the argument if given, else cur_dir.
TargetPath == IF Len(lines) = 1 THEN old_cur_dir ELSE lines[2]

\* s comes before t in lexical order: at the first place where they differ
\* s has the smaller character, or s is a proper prefix of t.
LexBefore(s, t) ==
    \/ Len(s) < Len(t) /\ SubSeq(t, 1, Len(s)) = s
    \/ \E i \in 1..Len(s) :
          /\ i <= Len(t)
          /\ SubSeq(s, 1, i - 1) = SubSeq(t, 1, i - 1)
          /\ Ord(s[i]) < Ord(t[i])

\* C11: ls returns the names of all children of the node its target
\* resolves to (the argument if given, else cur_dir), each once, in
\* ascending lexical order whatever their kind and insertion order, joined
\* by "\n"; it returns "" when the target has no children or does not
\* resolve.
C11_LsSortedNames ==
    IsCmd01(LS)
        => LET n == Resolve(old_heap, TargetPath)
               out == TextLines(result)
           IN /\ heap = old_heap
              /\ cur_dir = old_cur_dir
              /\ IF n = None \/ old_heap[n].children = <<>>
                 THEN result = <<>>
                 ELSE /\ { out[i] : i \in 1..Len(out) }
                            = { old_heap[old_heap[n].children[i].node].name :
                                  i \in 1..Len(old_heap[n].children) }
                      /\ Len(out) = Len(old_heap[n].children)
                      /\ \A i \in 1..(Len(out) - 1) : LexBefore(out[i], out[i + 1])

\* ls listed a file before a directory that was inserted first.
C11_Witness ==
    /\ IsCmd01(LS)
    /\ Resolve(old_heap, TargetPath) # None
    /\ LET n == Resolve(old_heap, TargetPath)
           c == old_heap[n].children
       IN /\ Len(c) = 2
          /\ LexBefore(c[2].key, c[1].key)
          /\ old_heap[c[1].node].is_dir
          /\ ~old_heap[c[2].node].is_dir
          /\ result = c[2].key \o <<"\n">> \o c[1].key

\* The children of n in the order tree shows them: directories first, and
\* in lexical order of the names within the directories and within the rest.
TreeOrder(h, n) ==
    LET c == { h[n].children[i].node : i \in 1..Len(h[n].children) }
    IN CHOOSE s \in [1..Cardinality(c) -> c] :
          /\ \A x \in c : \E i \in 1..Cardinality(c) : s[i] = x
          /\ \A i, j \in 1..Cardinality(c) :
                i < j => \/ h[s[i]].is_dir /\ ~h[s[j]].is_dir
                         \/ /\ h[s[i]].is_dir = h[s[j]].is_dir
                            /\ LexBefore(h[s[i]].name, h[s[j]].name)

\* The lines of the rendering of n's subtree under a prefix, as C12 states
\* them.
RECURSIVE TreeLines(_, _, _)
RECURSIVE ChildLines(_, _, _, _)
ChildLines(h, order, prefix, i) ==
    IF i > Len(order) THEN <<>>
    ELSE TreeLines(h, order[i],
                   prefix \o (IF i = Len(order) THEN <<" ", " ", " ">>
                              ELSE <<"|", " ", " ">>))
           \o ChildLines(h, order, prefix, i + 1)

TreeLines(h, n, prefix) ==
    <<prefix \o h[n].name \o (IF h[n].is_dir THEN <<"/">> ELSE <<>>)>>
        \o ChildLines(h, TreeOrder(h, n), prefix, 1)

\* Every line followed by "\n".
RECURSIVE Unlines(_)
Unlines(ls) == IF ls = <<>> THEN <<>> ELSE ls[1] \o <<"\n">> \o Unlines(Tail(ls))

\* C12: tree on a node that resolves emits one line per node of its
\* subtree, depth first: the name, then "/" iff the node is flagged a
\* directory; the children of a node come directories first and by name
\* within each group; a child's prefix is its parent's followed by "|  "
\* when it is not the last sibling and by "   " when it is.  When the target
\* does not resolve the result is "Directory not found.".
C12_TreeRendering ==
    IsCmd01(TREE)
        => LET n == Resolve(old_heap, TargetPath)
           IN /\ heap = old_heap
              /\ cur_dir = old_cur_dir
              /\ IF n = None THEN result = S_directory_not_found \o <<".">>
                 ELSE /\ result = Unlines(TreeLines(old_heap, n, <<>>))
                      /\ Len(TextLines(result)) - 1 = Cardinality(Subtree(old_heap, n))

\* tree showed a directory before a file of a smaller name, the last
\* sibling under "   " and the other under "|  ".
C12_Witness ==
    /\ IsCmd01(TREE)
    /\ Resolve(old_heap, TargetPath) = root_node
    /\ result = <<"/", "/", "\n",
                  "|", " ", " ", "b", "/", "\n",
                  " ", " ", " ", "a", "\n">>

\* s begins with pre
StartsWith(s, pre) == Len(s) >= Len(pre) /\ SubSeq(s, 1, Len(pre)) = pre

\* The last call left the tree and cur_dir as they were.
StateKept == heap = old_heap /\ cur_dir = old_cur_dir

\* C13: the dispatcher lets no handler failure escape.  An empty line gives
\* "" and an unknown command "Unknown command: <name>", both with the state
\* as it was; a handler that raises (mv of the root to a free destination)
\* gives a result that begins with "Error: ", with the state as it was; the
\* program goes on after every command but exit, and exit ends it.
C13_DispatcherCatches ==
    ncmds > 0
        => /\ running <=> ~(lines # <<>> /\ lines[1] = EXIT)
           /\ lines = <<>> => result = <<>> /\ StateKept
           /\ (lines # <<>> /\ lines[1] \notin {LS, CD, MV, TREE, EXIT})
                 => result = S_unknown_command \o lines[1] /\ StateKept
           /\ (/\ Len(lines) >= 3
               /\ lines[1] = MV
               /\ Resolve(old_heap, lines[2]) = root_node
               /\ Resolve(old_heap, lines[3]) = None)
                 => StartsWith(result, S_error)
           /\ StartsWith(result, S_error) => StateKept

\* mv of the root to a free destination raised, the result is the error
\* text and the program goes on.
C13_Witness ==
    /\ IsMv2
    /\ Resolve(old_heap, lines[2]) = root_node
    /\ Resolve(old_heap, lines[3]) = None
    /\ result = S_error \o <<"'", "'">>
    /\ running
    /\ StateKept

\* C14: no command removes a node from the tree: every node reachable from
\* the root before a command is reachable from the root after it, also when
\* mv returns a failure message.
C14_NoNodeRemoved ==
    Subtree(old_heap, root_node) \subseteq Subtree(heap, root_node)

\* The nodes that are children of a node of S.
Kids(h, S) ==
    UNION { { h[n].children[i].node : i \in 1..Len(h[n].children) } : n \in S }

\* S with all that is reachable from it in at most k steps.
RECURSIVE Closure(_, _, _)
Closure(h, S, k) == IF k = 0 THEN S ELSE Closure(h, S \cup Kids(h, S), k - 1)

\* The proper descendants of n.
Descendants(h, n) == Closure(h, Kids(h, {n}), Len(h))

\* C15: no node is its own descendant, and what is reachable from the root
\* is a tree (the root is nobody's child, every other node the child of
\* exactly one node), in every state, also after mv was asked to move a
\* directory into its own subtree.
C15_TreeNoCycle ==
    /\ \A n \in 1..Len(heap) : n \notin Descendants(heap, n)
    /\ LET reach == Closure(heap, {root_node}, Len(heap))
       IN \A n \in reach :
             Cardinality({ q \in reach : n \in Kids(heap, {q}) })
                 = IF n = root_node THEN 0 ELSE 1

\* mv was asked to move a directory with a child under itself.
C15_Witness ==
    /\ IsMv2
    /\ Resolve(old_heap, lines[2]) \notin {None, root_node}
    /\ old_heap[Resolve(old_heap, lines[2])].children # <<>>
    /\ Len(Segs(lines[3])) = 2
    /\ Resolve(old_heap, SubSeq(lines[3], 1, 1)) = Resolve(old_heap, lines[2])
    /\ Resolve(old_heap, lines[3]) = None
    /\ result = S_destination_parent \o lines[2]

\* C16: every node that has a child is flagged a directory, after the
\* construction from any entry sequence and after any sequence of commands.
C16_ParentsAreDirectories ==
    \A n \in Closure(heap, {root_node}, Len(heap)) :
        heap[n].children # <<>> => heap[n].is_dir

\* The paths of a tree with the flag of the node of each.
Shape(h) ==
    { <<segs, h[find_node_by_path(h, segs)].is_dir>> :
        segs \in { q \in SegSeqs : find_node_by_path(h, q) # None } }

\* C17: the construction is order-independent: every order of the entries
\* gives the node paths and the directory flags that the given order gives.
C17_BuildOrderIndependent ==
    ncmds = 0
        => \A p \in Permutations(1..Len(members)) :
              Shape(build_tree([i \in 1..Len(members) |-> members[p[i]]])) = Shape(heap)

\* C18: cur_dir is "/" at the start, always begins with "/", and only cd
\* changes it: after ls, mv, tree, an empty line and an unknown command it
\* is what it was, whatever the arguments and the outcome.
C18_CurDirOnlyByCd ==
    /\ ncmds = 0 => cur_dir = <<"/">>
    /\ StartsWith(cur_dir, <<"/">>)
    /\ (ncmds > 0 /\ (lines = <<>> \/ lines[1] # CD)) => cur_dir = old_cur_dir

\* mv moved the current directory itself, and cur_dir stayed.
C18_Witness ==
    /\ MvMoved
    /\ old_cur_dir # <<"/">>
    /\ Resolve(old_heap, old_cur_dir) = Resolve(old_heap, lines[2])
    /\ Resolve(heap, lines[3]) = Resolve(old_heap, lines[2])
    /\ cur_dir = old_cur_dir

\* C19: only mv changes the tree: after ls, cd, tree (and the path
\* resolutions they make) every node has the name, the kind and the
\* children, in their order, that it had, and every path resolves to the
\* node it resolved to.
C19_TreeOnlyByMv ==
    (ncmds > 0 /\ (lines = <<>> \/ lines[1] # MV))
        => /\ heap = old_heap
           /\ \A p \in PathArgs \cup {old_cur_dir} :
                 Resolve(heap, p) = Resolve(old_heap, p)

\* ls or tree showed two children in an order that is not the order of
\* their insertion, and the node keeps them as inserted.
C19_Witness ==
    /\ Len(lines) \in {1, 2}
    /\ lines[1] \in {LS, TREE}
    /\ Resolve(old_heap, TargetPath) # None
    /\ LET n == Resolve(old_heap, TargetPath)
       IN /\ Len(old_heap[n].children) = 2
          /\ LexBefore(old_heap[n].children[2].key, old_heap[n].children[1].key)
          /\ heap[n].children = old_heap[n].children
    /\ Len(TextLines(result)) >= 2

\* C20: in every state cur_dir resolves to a node that is flagged a
\* directory, also after mv moved the current directory or an ancestor.
C20_CurDirResolves ==
    /\ Resolve(heap, cur_dir) # None
    /\ heap[Resolve(heap, cur_dir)].is_dir
====
